---- MODULE Spec2Model ----
(***************************************************************************)
(* Model of the Fronius -> InfluxDB collector (src/src/main.rs).           *)
(*                                                                         *)
(* Spec     the scheduler loop of main and the body of fetch_data, one     *)
(*          step per statement that talks to the outside (device query,    *)
(*          environment lookup, sink write, sleep).                        *)
(* MapSpec  the seven response mappers as pure functions, applied to       *)
(*          device responses drawn from bounded sets.                      *)
(*                                                                         *)
(* Rust values are modelled as follows.                                    *)
(*   Option<T>         a sequence of length at most one: <<>> or <<v>>     *)
(*   Result<T, E>      [kind |-> "Ok", val |-> v] / [kind |-> "Err", ...]  *)
(*   a panic           [kind |-> "Panic", val |-> message]                 *)
(*   f64, i64          integers                                            *)
(*   println!          a log line: the sequence of the pieces of the       *)
(*                     format string and of its arguments                  *)
(***************************************************************************)
EXTENDS Integers, Sequences, FiniteSets, TLC

VARIABLES
    pc,        \* position of the process in main / fetch_data
    idx,       \* which of the seven statements of the current block is next
    now,       \* seconds since the process started
    boot,      \* the system clock when the process started
    env,       \* the process environment: sink variable -> Option<value>
    replies,   \* what the device client returned to each mapper this cycle
    results,   \* fetch_data's seven local Result variables
    writes,    \* the calls of client.write made in this cycle
    log,       \* the lines printed since the top of the loop
    res,       \* main's local `res`, the value fetch_data returned
    cycle,     \* number of calls of fetch_data so far
    lastEnd,   \* the clock when fetch_data last returned
    sleeps,    \* sleeps completed since fetch_data last returned
    mcat,      \* MapSpec: the category of the mapper under test
    mreply,    \* MapSpec: the device client's reply handed to the mapper
    mtime,     \* MapSpec: the clock at mapping time
    mresult,   \* MapSpec: what the mapper returned
    mpc        \* MapSpec: "idle" | "ready" | "mapped"

vars == <<pc, idx, now, boot, env, replies, results, writes, log, res, cycle,
          lastEnd, sleeps, mcat, mreply, mtime, mresult, mpc>>
mainVars == <<pc, idx, now, boot, env, replies, results, writes, log, res, cycle,
              lastEnd, sleeps>>
mapVars == <<mcat, mreply, mtime, mresult, mpc>>

----------------------------------------------------------------------------
(* Bounds of the model. *)

\* Device readings are drawn from 0 .. MaxVal (+ the position of the field).
MaxVal == 1
\* The scheduler loop is followed for this many cycles.
MaxCycles == 2
\* thread::sleep may return this many seconds late.
MaxOversleep == 1
\* Seconds one blocking device query or sink write takes.
IoSecs == 1
\* MapSpec draws the seconds of the mapping instant from 0 .. MaxStamp.
MaxStamp == 1

(* Program constants. *)
SleepSecs == 15
interver_id == 1
NumMappers == 7

----------------------------------------------------------------------------
(* Rust's Option and Result. *)

None == <<>>
Some(v) == <<v>>
Ok(v) == [kind |-> "Ok", val |-> v]
Err(e) == [kind |-> "Err", val |-> e]
Panic(m) == [kind |-> "Panic", val |-> m]
\* the unit type is the empty tuple
Unit == <<>>
NotCalled == [kind |-> "NotCalled", val |-> Unit]

\* Option::unwrap_or
unwrap_or(o, d) == IF o = None THEN d ELSE o[1]

Range(s) == {s[i] : i \in 1..Len(s)}
Pos(s, x) == CHOOSE i \in 1..Len(s) : s[i] = x

----------------------------------------------------------------------------
(* The seven categories, in the order fetch_data handles them; the names    *)
(* are those of fetch_data's local variables, which tag the diagnostics.    *)

Categories == <<"inverter_data", "inverter_phase_data", "inverter_info",
                "meter_data", "storage_data", "ohm_pilot_data",
                "power_flow_data">>

----------------------------------------------------------------------------
(* Device responses. The response types live in the device client; their    *)
(* fields are the ones main.rs reads. A reading that is present is          *)
(* base + (position of the field), so that no two fields of one response    *)
(* carry the same value.                                                    *)

Reading(fields, absent, base, f) ==
    IF f \in absent THEN None ELSE Some(base + Pos(fields, f))

InverterFields == <<"pac", "sac", "iac", "uac", "fac", "idc", "udc",
                    "total_energy">>
\* fronius::CommonInverterData: every field is a struct with an optional
\* `value`; `fac` itself is optional.
CommonInverterData(absent, facMissing, base) ==
    [f \in Range(InverterFields) |->
        IF f = "fac"
        THEN IF facMissing THEN None
             ELSE Some([value |-> Reading(InverterFields, absent, base, f)])
        ELSE [value |-> Reading(InverterFields, absent, base, f)]]

PhaseFields == <<"iac_l1", "iac_l2", "iac_l3", "uac_l1", "uac_l2", "uac_l3">>
\* fronius::ThreePhaseInverterData
ThreePhaseInverterData(absent, base) ==
    [f \in Range(PhaseFields) |->
        [value |-> Reading(PhaseFields, absent, base, f)]]

MeterOptFields == <<"current_ac_phase_1", "current_ac_phase_2",
                    "current_ac_phase_3", "current_ac_sum",
                    "voltage_ac_phase_1", "voltage_ac_phase_2",
                    "voltage_ac_phase_3", "voltage_ac_phase_to_phase_12",
                    "voltage_ac_phase_to_phase_23",
                    "voltage_ac_phase_to_phase_31", "power_real_p_phase_1",
                    "power_real_p_phase_2", "power_real_p_phase_3">>
MeterReqFields == <<"power_real_p_sum", "frequency_phase_average">>
\* the response of get_meter_realtime_data_device
MeterResponse(absent, base) ==
    [f \in Range(MeterOptFields) \cup Range(MeterReqFields) |->
        IF f \in Range(MeterOptFields)
        THEN Reading(MeterOptFields, absent, base, f)
        ELSE base + Len(MeterOptFields) + Pos(MeterReqFields, f)]

\* the response of get_storage_realtime_data_device
StorageResponse(flag, base) ==
    [controller |-> [enable |-> flag,
                     state_of_charge_relative |-> base + 1,
                     capacity_maximum |-> base + 2,
                     current_dc |-> base + 3,
                     voltage_dc |-> base + 4,
                     temperature_cell |-> base + 5]]

\* the response of get_ohm_pilot_realtime_data_device
OhmPilotResponse(code, base) ==
    [code_of_state |-> base,
     code_of_error |-> code,
     power_real_pac_sum |-> base + 1,
     temperature_channel_1 |-> base + 2]

SiteOptFields == <<"p_akku", "p_grid", "p_load", "rel_autonomy",
                   "rel_self_consumption">>
\* the response of get_power_flow_realtime_data
PowerFlowResponse(absent, base) ==
    [site |-> [f \in Range(SiteOptFields) \cup {"p_pv"} |->
        IF f = "p_pv" THEN base + Len(SiteOptFields) + 1
        ELSE Reading(SiteOptFields, absent, base, f)]]

\* one entry of the map get_inverter_info returns
InfoEntry(flag, base) ==
    [dt |-> base + 1, pv_power |-> base + 2, custom_name |-> "PV",
     show |-> flag, unique_id |-> "4711", error_code |-> base + 3,
     status_code |-> base + 4, inverter_state |-> "Running"]

\* The maps get_inverter_info may return: device id (as a string) ->
\* Option<entry>. The queried id may be missing, or present with no entry.
InfoMaps(flag, base) ==
    { [k \in {"1"} |-> Some(InfoEntry(flag, base))],
      [k \in {"1"} |-> None],
      [k \in {"0"} |-> Some(InfoEntry(flag, base))],
      [k \in {"0", "1"} |-> IF k = "1" THEN None
                            ELSE Some(InfoEntry(flag, base))] }

Bases == 0..MaxVal
Flags == 0..MaxVal

\* Every response of a category within the bounds.
Responses(cat) ==
    CASE cat = "inverter_data" ->
            {CommonInverterData(a, m, b) :
                a \in SUBSET Range(InverterFields), m \in BOOLEAN, b \in Bases}
      [] cat = "inverter_phase_data" ->
            {ThreePhaseInverterData(a, b) :
                a \in SUBSET Range(PhaseFields), b \in Bases}
      [] cat = "inverter_info" ->
            UNION {InfoMaps(f, b) : f \in Flags, b \in Bases}
      [] cat = "meter_data" ->
            {MeterResponse(a, b) :
                a \in SUBSET Range(MeterOptFields), b \in Bases}
      [] cat = "storage_data" ->
            {StorageResponse(f, b) : f \in Flags, b \in Bases}
      [] cat = "ohm_pilot_data" ->
            {OhmPilotResponse(c, b) :
                c \in {None} \cup {Some(e) : e \in Bases}, b \in Bases}
      [] cat = "power_flow_data" ->
            {PowerFlowResponse(a, b) :
                a \in SUBSET Range(SiteOptFields), b \in Bases}

\* What a query of the device client can come back with: an error of the
\* client, or one of the responses.
ClientError == Err(<<"FetchError">>)
OkReplies(cat) == {Ok(r) : r \in Responses(cat)}

----------------------------------------------------------------------------
(* The system clock: a count of nanoseconds since 1970, held               *)
(* in three parts as (giga * Giga + secs) seconds and nanos nanoseconds,   *)
(* with 0 <= secs < Giga and 0 <= nanos < Giga, so that each part stays    *)
(* within the checker's integers; giga is negative before 1970.            *)

Giga == 1000000000
Clock(g, s, n) == [giga |-> g, secs |-> s, nanos |-> n]
\* The clock d seconds after c.
ClockAfter(c, d) ==
    LET s == c.secs + d IN Clock(c.giga + (s \div Giga), s % Giga, c.nanos)
Later(a, b) ==
    \/ a.giga > b.giga
    \/ a.giga = b.giga /\ a.secs > b.secs
    \/ a.giga = b.giga /\ a.secs = b.secs /\ a.nanos > b.nanos

\* The instants of i64::MIN = -9223372036854775808 and of
\* i64::MAX = 9223372036854775807 nanoseconds since 1970
\* (1677-09-21 00:12:43.145224192 and 2262-04-11 23:47:16.854775807).
FirstStamp == Clock(-10, 776627963, 145224192)
LastStamp == Clock(9, 223372036, 854775807)

\* DateTime::timestamp_nanos_opt: the nanoseconds since 1970 as an i64, None
\* when they do not fit. The stamp is kept in the three parts of the clock
\* it was taken from.
timestamp_nanos_opt(t) ==
    IF Later(FirstStamp, t) \/ Later(t, LastStamp) THEN None ELSE Some(t)

\* Utc::now(): SystemTime::now().duration_since(UNIX_EPOCH) with an
\* expect(), which panics when the system clock `c` is before 1970.
UnixEpoch == Clock(0, 0, 0)
Utc_now(c) ==
    IF Later(UnixEpoch, c) THEN Panic("system time before Unix epoch")
    ELSE Ok(c)

\* Utc::now().timestamp_nanos_opt().expect("Could not fetch timestamp")
\* with the system clock at c: the stamp, or the panic of either call.
Timestamp(c) ==
    LET utc == Utc_now(c) IN
    IF utc.kind = "Panic" THEN utc
    ELSE LET stamp == timestamp_nanos_opt(utc.val) IN
         IF stamp = None THEN Panic("Could not fetch timestamp")
         ELSE Ok(stamp[1])

\* The clocks a process is started at: ten seconds before 1970, 2023-11-14,
\* five seconds before the last second that has a timestamp, and
\* 2300-01-01.
Boots ==
    {Clock(-1, 999999990, 0), Clock(1, 700000000, 0),
     Clock(9, 223372031, 0), Clock(10, 413792000, 0)}

----------------------------------------------------------------------------
(* The seven mappers. `reply` is what the device client's query returned    *)
(* (the `?` hands its error on), `t` is the system clock at mapping time.   *)
(* The fields of the record are built in the order written, `time` last:   *)
(* Utc::now() panics before 1970, and expect() when the clock has no       *)
(* timestamp.                                                              *)

\* get_inverter_data with a missing `fac` reported as a frequency of 0.
get_inverter_data_default(reply, t) ==
    IF reply.kind = "Err" THEN reply
    ELSE LET response == reply.val IN
         LET time == Timestamp(t) IN
         IF time.kind = "Panic" THEN time
         ELSE Ok([device |-> "Inverter",
                  ac_power |-> response.pac.value,
                  ac_power_abs |-> response.sac.value,
                  ac_current |-> response.iac.value,
                  ac_voltage |-> response.uac.value,
                  ac_frequency |-> IF response.fac = None THEN Some(0)
                                   ELSE response.fac[1].value,
                  dc_current |-> response.idc.value,
                  dc_voltage |-> response.udc.value,
                  total_energy |-> response.total_energy.value,
                  time |-> time.val])

get_inverter_data(reply, t) ==
    IF reply.kind = "Err" THEN reply
    ELSE LET response == reply.val IN
         LET time == Timestamp(t) IN
         IF time.kind = "Panic" THEN time
         ELSE Ok([device |-> "Inverter",
                  ac_power |-> response.pac.value,
                  ac_power_abs |-> response.sac.value,
                  ac_current |-> response.iac.value,
                  ac_voltage |-> response.uac.value,
                  ac_frequency |-> IF response.fac = None THEN None
                                   ELSE response.fac[1].value,
                  dc_current |-> response.idc.value,
                  dc_voltage |-> response.udc.value,
                  total_energy |-> response.total_energy.value,
                  time |-> time.val])

get_inverter_phase_data(reply, t) ==
    IF reply.kind = "Err" THEN reply
    ELSE LET response == reply.val IN
         LET time == Timestamp(t) IN
         IF time.kind = "Panic" THEN time
         ELSE Ok([device |-> "Inverter",
                  ac_l1_current |-> response.iac_l1.value,
                  ac_l2_current |-> response.iac_l2.value,
                  ac_l3_current |-> response.iac_l3.value,
                  dc_l1_voltage |-> response.uac_l1.value,
                  dc_l2_voltage |-> response.uac_l2.value,
                  dc_l3_voltage |-> response.uac_l3.value,
                  time |-> time.val])

\* Indexing the map with a missing key panics (Index of the std maps), and
\* so does expect() on an entry that is None: neither is turned into an
\* Err, and nothing in main catches the unwinding.
get_inverter_info(reply, id, t) ==
    LET device_id == ToString(id) IN
    IF reply.kind = "Err" THEN reply
    ELSE LET info == reply.val IN
         IF device_id \notin DOMAIN info THEN Panic("no entry found for key")
         ELSE IF info[device_id] = None THEN Panic("Invalid device id")
         ELSE LET response == info[device_id][1] IN
              LET time == Timestamp(t) IN
              IF time.kind = "Panic" THEN time
              ELSE Ok([device |-> "Inverter",
                       device_type |-> response.dt,
                       pv_power |-> response.pv_power,
                       name |-> response.custom_name,
                       is_visualized |-> response.show > 0,
                       id |-> response.unique_id,
                       error_code |-> response.error_code,
                       status_code |-> ToString(response.status_code),
                       state |-> response.inverter_state,
                       time |-> time.val])

get_meter_data(reply, t) ==
    IF reply.kind = "Err" THEN reply
    ELSE LET response == reply.val IN
         LET time == Timestamp(t) IN
         IF time.kind = "Panic" THEN time
         ELSE Ok([device |-> "Meter",
                  l1_current |-> response.current_ac_phase_1,
                  l2_current |-> response.current_ac_phase_2,
                  l3_current |-> response.current_ac_phase_3,
                  current |-> response.current_ac_sum,
                  l1_voltage |-> response.voltage_ac_phase_1,
                  l2_voltage |-> response.voltage_ac_phase_2,
                  l3_voltage |-> response.voltage_ac_phase_3,
                  l12_voltage |-> response.voltage_ac_phase_to_phase_12,
                  l23_voltage |-> response.voltage_ac_phase_to_phase_23,
                  l31_voltage |-> response.voltage_ac_phase_to_phase_31,
                  l1_power |-> response.power_real_p_phase_1,
                  l2_power |-> response.power_real_p_phase_2,
                  l3_power |-> response.power_real_p_phase_3,
                  power |-> response.power_real_p_sum,
                  frequency_average |-> response.frequency_phase_average,
                  time |-> time.val])

get_storage_data(reply, t) ==
    IF reply.kind = "Err" THEN reply
    ELSE LET response == reply.val IN
         LET time == Timestamp(t) IN
         IF time.kind = "Panic" THEN time
         ELSE Ok([device |-> "Storage",
                  enabled |-> response.controller.enable > 0,
                  charge_percentage |-> response.controller.state_of_charge_relative,
                  capacity |-> response.controller.capacity_maximum,
                  dc_current |-> response.controller.current_dc,
                  dc_voltage |-> response.controller.voltage_dc,
                  temperature_cell |-> response.controller.temperature_cell,
                  time |-> time.val])

get_ohm_pilot_data(reply, t) ==
    IF reply.kind = "Err" THEN reply
    ELSE LET response == reply.val IN
         LET time == Timestamp(t) IN
         IF time.kind = "Panic" THEN time
         ELSE Ok([device |-> "OhmPilot",
                  state |-> ToString(response.code_of_state),
                  error_code |-> unwrap_or(response.code_of_error, 0),
                  power |-> response.power_real_pac_sum,
                  temperature |-> response.temperature_channel_1,
                  time |-> time.val])

get_power_flow_data(reply, t) ==
    IF reply.kind = "Err" THEN reply
    ELSE LET response == reply.val IN
         LET time == Timestamp(t) IN
         IF time.kind = "Panic" THEN time
         ELSE Ok([device |-> "Unknown",
                  akku |-> response.site.p_akku,
                  grid |-> response.site.p_grid,
                  load |-> response.site.p_load,
                  photovoltaik |-> response.site.p_pv,
                  relative_autonomy |-> response.site.rel_autonomy,
                  relative_self_consumption |-> response.site.rel_self_consumption,
                  time |-> time.val])

\* The mapper fetch_data calls for the i-th category (lines 334-340).
Mapper(i, reply, t) ==
    CASE i = 1 -> get_inverter_data(reply, t)
      [] i = 2 -> get_inverter_phase_data(reply, t)
      [] i = 3 -> get_inverter_info(reply, interver_id, t)
      [] i = 4 -> get_meter_data(reply, t)
      [] i = 5 -> get_storage_data(reply, t)
      [] i = 6 -> get_ohm_pilot_data(reply, t)
      [] i = 7 -> get_power_flow_data(reply, t)

----------------------------------------------------------------------------
(* The process environment and the sink. Errors are sequences of strings:  *)
(* the pieces their Debug form is printed from.                            *)

ConfigVars == <<"INFLUX_DB_URL", "INFLUX_DB_ORG", "INFLUX_DB_TOKEN",
                "INFLUX_DB_BUCKET">>

EnvValue(k) ==
    CASE k = "INFLUX_DB_URL" -> "http://influx:8086"
      [] k = "INFLUX_DB_ORG" -> "home"
      [] k = "INFLUX_DB_TOKEN" -> "secret"
      [] k = "INFLUX_DB_BUCKET" -> "solar"

\* A value that is not valid unicode, as Debug prints it.
NonUnicodeText == "\\xFF"

\* The states of one variable: unset, set to its value, or set to bytes
\* that are not valid unicode (an OsString is its text and whether that
\* text is valid unicode).
VarStates(k) ==
    {None, Some([unicode |-> TRUE, text |-> EnvValue(k)]),
     Some([unicode |-> FALSE, text |-> NonUnicodeText])}

\* The environments the process may be started in.
Environments ==
    {e \in [Range(ConfigVars) -> UNION {VarStates(k) : k \in Range(ConfigVars)}] :
        \A k \in Range(ConfigVars) : e[k] \in VarStates(k)}

\* std::env::var: Ok(value), Err(NotPresent) for a variable that is not
\* set, Err(NotUnicode(value)) for one whose value is not valid unicode.
\* An error is the sequence of the pieces Debug prints.
std_env_var(e, key) ==
    IF e[key] = None THEN Err(<<"NotPresent">>)
    ELSE IF ~e[key][1].unicode THEN Err(<<"NotUnicode", e[key][1].text>>)
    ELSE Ok(e[key][1].text)

\* Lines 342-343: the three arguments of Client::new are read left to
\* right, then the bucket; the first `?` that meets an Err returns it.
sink_config(e) ==
    LET url == std_env_var(e, "INFLUX_DB_URL")
        org == std_env_var(e, "INFLUX_DB_ORG")
        token == std_env_var(e, "INFLUX_DB_TOKEN")
        bucket == std_env_var(e, "INFLUX_DB_BUCKET")
    IN  IF url.kind = "Err" THEN url
        ELSE IF org.kind = "Err" THEN org
        ELSE IF token.kind = "Err" THEN token
        ELSE IF bucket.kind = "Err" THEN bucket
        ELSE Ok([client |-> [url |-> url.val, org |-> org.val,
                             token |-> token.val],
                 bucket |-> bucket.val])

\* What client.write can come back with.
WriteOutcomes == {Ok(Unit), Err(<<"WriteError">>)}

(* The lines the program prints. *)
ReportLine(t) ==
    <<"Reporting data at:", ToString(t.giga), ToString(t.secs),
      ToString(t.nanos)>>
FetchErrorLine(cat, e) == <<"Error during fetch of", cat, "occured:">> \o e
WriteErrorLine(e) == <<"Error during influxdb write occured:">> \o e
CycleErrorLine(e) == <<"Error during fetch occured:">> \o e

\* What building the tokio runtime can come back with: the runtime, or the
\* error of the OS (no thread, no file descriptor left).
RuntimeOutcomes == {Ok(Unit), Err(<<"Os", "24", "Too many open files">>)}

\* send_to_influx that drops a failed write without printing it.
send_to_influx_silent(client, bucket, data, runtime, outcome) ==
    IF runtime.kind = "Err"
    THEN [kind |-> "Panic", writes |-> <<>>, printed |-> <<>>]
    ELSE [kind |-> "Return",
          writes |-> <<[client |-> client, bucket |-> bucket, data |-> data,
                        res |-> outcome]>>,
          printed |-> <<>>]

\* send_to_influx: the runtime is built and unwrap()ed, which panics when
\* the build failed, before anything is written or printed (the panic
\* message goes to stderr). Otherwise one call of client.write with the
\* batch `data`; its Err is printed and dropped, nothing is returned.
send_to_influx(client, bucket, data, runtime, outcome) ==
    IF runtime.kind = "Err"
    THEN [kind |-> "Panic", writes |-> <<>>, printed |-> <<>>]
    ELSE [kind |-> "Return",
          writes |-> <<[client |-> client, bucket |-> bucket, data |-> data,
                        res |-> outcome]>>,
          printed |-> IF outcome.kind = "Err"
                      THEN <<WriteErrorLine(outcome.val)>> ELSE <<>>]

\* The responses the device gives while the scheduler runs, when the query
\* does not fail: one complete response per category; for the inverter info
\* every map of InfoMaps.
MainResponses(i) ==
    CASE i = 1 -> {CommonInverterData({}, FALSE, 0)}
      [] i = 2 -> {ThreePhaseInverterData({}, 0)}
      [] i = 3 -> InfoMaps(1, 0)
      [] i = 4 -> {MeterResponse({}, 0)}
      [] i = 5 -> {StorageResponse(1, 0)}
      [] i = 6 -> {OhmPilotResponse(None, 0)}
      [] i = 7 -> {PowerFlowResponse({}, 0)}

Fresh == [i \in 1..NumMappers |-> NotCalled]

\* The system clock when the process has run for t seconds.
Wall(t) == ClockAfter(boot, t)

----------------------------------------------------------------------------
(* main and fetch_data. *)

MapIdle ==
    /\ mpc = "idle"
    /\ mcat = 0
    /\ mreply = NotCalled
    /\ mtime = Clock(0, 0, 0)
    /\ mresult = NotCalled

Init ==
    /\ pc = "start"
    /\ idx = 1
    /\ now = 0
    /\ boot \in Boots
    /\ env \in Environments
    /\ replies = Fresh
    /\ results = Fresh
    /\ writes = <<>>
    /\ log = <<>>
    /\ res = NotCalled
    /\ cycle = 0
    /\ lastEnd = 0
    /\ sleeps = 0
    /\ MapIdle

\* Lines 391-393: a missing or malformed FRONIUS_IP, or a failed connect,
\* makes main return before the loop.
Startup ==
    /\ pc = "start"
    /\ \E outcome \in {Ok(Unit), Err(<<"NotPresent">>),
                       Err(<<"NotUnicode", NonUnicodeText>>),
                       Err(<<"AddrParseError">>), Err(<<"ConnectError">>)} :
          pc' = IF outcome.kind = "Ok" THEN "loop" ELSE "exited"
    /\ UNCHANGED <<idx, now, env, boot, replies, results, writes, log, res, cycle,
                   lastEnd, sleeps>>

\* Lines 395-397: the top of the loop, up to the call of fetch_data. The
\* Utc::now() of line 395 panics when the system clock is before 1970.
LoopTop ==
    /\ pc = "loop"
    /\ cycle < MaxCycles
    /\ LET utc == Utc_now(Wall(now)) IN
       IF utc.kind = "Panic"
       THEN /\ pc' = "panicked"
            /\ UNCHANGED <<log, cycle, replies, results, writes, res, idx>>
       ELSE /\ log' = <<ReportLine(utc.val)>>
            /\ cycle' = cycle + 1
            /\ replies' = Fresh
            /\ results' = Fresh
            /\ writes' = <<>>
            /\ res' = NotCalled
            /\ pc' = "mappers"
            /\ idx' = 1
    /\ UNCHANGED <<now, env, boot, lastEnd, sleeps>>

\* Lines 334-340: the i-th mapper call. A panic of the mapper (the lookup of
\* get_inverter_info, Utc::now(), the expect() on the timestamp) ends the
\* process.
MapperReturn(i, reply) ==
    LET r == Mapper(i, reply, Wall(now + IoSecs)) IN
    /\ replies' = [replies EXCEPT ![i] = reply]
    /\ results' = [results EXCEPT ![i] = r]
    /\ pc' = IF r.kind = "Panic" THEN "panicked"
             ELSE IF i = NumMappers THEN "config" ELSE "mappers"
    /\ idx' = IF r.kind = "Panic" THEN i
              ELSE IF i = NumMappers THEN 1 ELSE i + 1

MapperCall(i) ==
    /\ pc = "mappers"
    /\ idx = i
    /\ \/ MapperReturn(i, ClientError)
       \/ \E r \in MainResponses(i) : MapperReturn(i, Ok(r))
    /\ now' = now + IoSecs
    /\ UNCHANGED <<env, boot, writes, log, res, cycle, lastEnd, sleeps>>

\* Lines 342-343: the sink configuration; a missing value returns the Err.
ReadConfig ==
    /\ pc = "config"
    /\ LET c == sink_config(env) IN
       IF c.kind = "Err"
       THEN /\ res' = c
            /\ pc' = "returned"
            /\ lastEnd' = now
            /\ sleeps' = 0
       ELSE /\ pc' = "dispatch"
            /\ UNCHANGED <<res, lastEnd, sleeps>>
    /\ idx' = 1
    /\ UNCHANGED <<now, env, boot, replies, results, writes, log, cycle>>

\* The end of the i-th if/else block: the next block, or after the seventh
\* the Ok(()) of line 387.
BlockDone(i) ==
    IF i = NumMappers
    THEN /\ res' = Ok(Unit)
         /\ pc' = "returned"
         /\ idx' = 1
         /\ lastEnd' = now'
         /\ sleeps' = 0
    ELSE /\ idx' = i + 1
         /\ UNCHANGED <<pc, res, lastEnd, sleeps>>

\* The call of send_to_influx in the i-th block: a panic ends the process.
SendRecord(i, record) ==
    \E runtime \in RuntimeOutcomes, outcome \in WriteOutcomes :
        LET c == sink_config(env).val
            s == send_to_influx(c.client, c.bucket, <<record>>, runtime,
                                outcome)
        IN  IF s.kind = "Panic"
            THEN /\ pc' = "panicked"
                 /\ UNCHANGED <<idx, writes, log, now, res, lastEnd, sleeps>>
            ELSE /\ writes' = writes \o s.writes
                 /\ log' = log \o s.printed
                 /\ now' = now + IoSecs
                 /\ BlockDone(i)

\* Lines 345-387: the i-th if/else block; after the seventh, Ok(()).
Dispatch(i) ==
    /\ pc = "dispatch"
    /\ idx = i
    /\ LET r == results[i] IN
       IF r.kind = "Ok"
       THEN SendRecord(i, r.val)
       ELSE /\ log' = Append(log, FetchErrorLine(Categories[i], r.val))
            /\ UNCHANGED <<writes, now>>
            /\ BlockDone(i)
    /\ UNCHANGED <<env, boot, replies, results, cycle>>

\* HandleResult with the sleep skipped after a failed cycle (`continue`).
HandleResult_SkipSleepOnError ==
    /\ pc = "returned"
    /\ log' = IF res.kind = "Err" THEN Append(log, CycleErrorLine(res.val))
              ELSE log
    /\ pc' = IF res.kind = "Err" THEN "loop" ELSE "sleep"
    /\ UNCHANGED <<idx, now, env, boot, replies, results, writes, res, cycle,
                   lastEnd, sleeps>>

\* Lines 399-403: an Err is printed; `res?` on an Ok does nothing.
HandleResult ==
    /\ pc = "returned"
    /\ log' = IF res.kind = "Err" THEN Append(log, CycleErrorLine(res.val))
              ELSE log
    /\ pc' = "sleep"
    /\ UNCHANGED <<idx, now, env, boot, replies, results, writes, res, cycle,
                   lastEnd, sleeps>>

\* Line 404: thread::sleep returns after at least SleepSecs.
Sleep ==
    /\ pc = "sleep"
    /\ \E late \in 0..MaxOversleep : now' = now + SleepSecs + late
    /\ sleeps' = sleeps + 1
    /\ pc' = "loop"
    /\ UNCHANGED <<idx, env, boot, replies, results, writes, log, res, cycle,
                   lastEnd>>

Next ==
    \/ Startup /\ UNCHANGED mapVars
    \/ LoopTop /\ UNCHANGED mapVars
    \/ \E i \in 1..NumMappers : MapperCall(i) /\ UNCHANGED mapVars
    \/ ReadConfig /\ UNCHANGED mapVars
    \/ \E i \in 1..NumMappers : Dispatch(i) /\ UNCHANGED mapVars
    \/ HandleResult /\ UNCHANGED mapVars
    \/ Sleep /\ UNCHANGED mapVars

Spec == Init /\ [][Next]_vars

----------------------------------------------------------------------------
(* The mappers on their own: a reply is drawn, the mapper is applied.       *)

MainIdle ==
    /\ pc = "idle"
    /\ idx = 1
    /\ now = 0
    /\ boot = Clock(0, 0, 0)
    /\ env = [k \in Range(ConfigVars) |-> None]
    /\ replies = Fresh
    /\ results = Fresh
    /\ writes = <<>>
    /\ log = <<>>
    /\ res = NotCalled
    /\ cycle = 0
    /\ lastEnd = 0
    /\ sleeps = 0

\* The system clock at the mapping instant: early and late seconds, and
\* the nanoseconds either side of 1970 and of the last timestamp.
MapClocks ==
    {Clock(g, s, 0) : g \in {1, 10}, s \in 0..MaxStamp}
        \cup {UnixEpoch, Clock(-1, Giga - 1, Giga - 1), LastStamp,
              Clock(LastStamp.giga, LastStamp.secs, LastStamp.nanos + 1)}

MapInit ==
    /\ MainIdle
    /\ mpc = "ready"
    /\ mcat \in 1..NumMappers
    /\ \/ mreply = ClientError
       \/ mreply \in OkReplies(Categories[mcat])
    /\ mtime \in MapClocks
    /\ mresult = NotCalled

MapApply(i) ==
    /\ mpc = "ready"
    /\ mcat = i
    /\ mresult' = Mapper(i, mreply, mtime)
    /\ mpc' = "mapped"
    /\ UNCHANGED <<mcat, mreply, mtime>>

MapNext == \E i \in 1..NumMappers : MapApply(i) /\ UNCHANGED mainVars

MapSpec == MapInit /\ [][MapNext]_vars

----------------------------------------------------------------------------
(* Vocabulary of the properties. *)

ConfigAvailable == sink_config(env).kind = "Ok"
Invoked == {i \in 1..NumMappers : results[i].kind # "NotCalled"}
Succeeded == {i \in 1..NumMappers : results[i].kind = "Ok"}
Failed == {i \in 1..NumMappers : results[i].kind \in {"Err", "Panic"}}
SucceededUpTo(n) == {i \in Succeeded : i <= n}

\* fetch_data has returned to main / has returned or died.
Returned == cycle >= 1 /\ pc \in {"returned", "sleep", "loop"}
CycleOver == cycle >= 1 /\ pc \in {"returned", "sleep", "loop", "panicked"}

\* The record of mapper i is the batch of the write made for it: writes
\* follow the order of the categories.
Dispatched(i) ==
    LET k == Cardinality(SucceededUpTo(i)) IN
    /\ k <= Len(writes)
    /\ writes[k].data = <<results[i].val>>

FailedWrites == {k \in 1..Len(writes) : writes[k].res.kind = "Err"}
\* The category whose record the k-th write carried.
CategoryOfWrite(k) ==
    Categories[CHOOSE i \in Succeeded : Cardinality(SucceededUpTo(i)) = k]

IsWriteDiagnostic(line) == line[1] = "Error during influxdb write occured:"
IsFetchDiagnostic(line) == line[1] = "Error during fetch of"
IsCycleDiagnostic(line) == line[1] = "Error during fetch occured:"
WriteDiagnostics == SelectSeq(log, IsWriteDiagnostic)
FetchDiagnostics == SelectSeq(log, IsFetchDiagnostic)

\* The info map the device returned has no record for the queried id.
LookupFails ==
    /\ replies[3].kind = "Ok"
    /\ \/ ToString(interver_id) \notin DOMAIN replies[3].val
       \/ replies[3].val[ToString(interver_id)] = None

----------------------------------------------------------------------------
(* C1: in any cycle, whichever mappers fail, every other mapper is invoked *)
(* and, if it succeeds and the sink configuration is available, its record *)
(* is dispatched in that cycle. Violated: a lookup failure of              *)
(* get_inverter_info panics, and the four later mappers are never called;  *)
(* a runtime that send_to_influx cannot build panics, and the records not  *)
(* yet dispatched are dropped; so does a mapper whose clock has no         *)
(* timestamp.                                                              *)
C1_OtherMappersStillRun ==
    CycleOver =>
        \A i \in (1..NumMappers) \ Failed :
            /\ i \in Invoked
            /\ (results[i].kind = "Ok" /\ ConfigAvailable) => Dispatched(i)

(* What holds of C1 on the cycles fetch_data returns from. *)
C1_HoldsWhenReturned ==
    Returned =>
        /\ Invoked = 1..NumMappers
        /\ ConfigAvailable => \A i \in Succeeded : Dispatched(i)

(* C2: when the info map has no record for the queried inverter id,        *)
(* get_inverter_info returns an error value and the process goes on.       *)
(* Violated: the mapper panics.                                            *)
C2_LookupFailureIsAnError ==
    LookupFails => (results[3].kind = "Err" /\ pc # "panicked")

(* C3: once the scheduler loop has started, no steady-state error ends the *)
(* process. Violated by the panic of C2, by the panic of send_to_influx    *)
(* when the runtime cannot be built, and by the panic of a mapper whose    *)
(* clock has no timestamp.                                                 *)
C3_LoopNeverEnds ==
    cycle >= 1 => pc \notin {"panicked", "exited"}

(* C4: in every cycle with the sink configuration available, the number of *)
(* sink writes equals the number of mappers that succeeded. Violated: the  *)
(* panic of C2, and the panic of send_to_influx when the runtime cannot be *)
(* built, drop the records already produced in that cycle.                 *)
C4_OneWritePerSuccess ==
    (CycleOver /\ ConfigAvailable) => Len(writes) = Cardinality(Succeeded)

(* What holds of C4 on the cycles fetch_data returns from: one write per   *)
(* success, each a one-element batch of a record mapped after the cycle's  *)
(* "Reporting data at" line, in the order of the categories.               *)
C4_HoldsWhenReturned ==
    (Returned /\ ConfigAvailable) =>
        /\ Len(writes) = Cardinality(Succeeded)
        /\ \A i \in Succeeded : Dispatched(i)
        /\ \E start \in 0..now :
              /\ log[1] = ReportLine(Wall(start))
              /\ \A k \in 1..Len(writes) :
                    /\ Len(writes[k].data) = 1
                    /\ Later(writes[k].data[1].time, Wall(start))

(* C5: a failed sink write is absorbed: it is logged, the dispatches after *)
(* it are still made, in the order of the categories, and fetch_data       *)
(* returns Ok. Violated: the dispatch after a failed write builds a new    *)
(* runtime and panics when that cannot be built, so fetch_data does not    *)
(* return.                                                                 *)
C5_WriteFailureAbsorbed ==
    FailedWrites # {} =>
        /\ Len(WriteDiagnostics) = Cardinality(FailedWrites)
        /\ pc \in {"dispatch", "returned", "sleep", "loop"}
        /\ pc = "dispatch" =>
              /\ Len(writes) = Cardinality(SucceededUpTo(idx - 1))
              /\ \A i \in SucceededUpTo(idx - 1) : Dispatched(i)
        /\ Returned =>
              /\ res.kind = "Ok"
              /\ Len(writes) = Cardinality(Succeeded)
              /\ \A i \in Succeeded : Dispatched(i)

(* What holds of C5 while no runtime build has failed: every failed write  *)
(* is logged, the dispatches made so far are those of the successes, and a *)
(* cycle fetch_data returns from returns Ok with every success dispatched. *)
C5_HoldsWhenReturned ==
    (FailedWrites # {} /\ pc # "panicked") =>
        /\ Len(WriteDiagnostics) = Cardinality(FailedWrites)
        /\ pc = "dispatch" =>
              /\ Len(writes) = Cardinality(SucceededUpTo(idx - 1))
              /\ \A i \in SucceededUpTo(idx - 1) : Dispatched(i)
        /\ Returned =>
              /\ res.kind = "Ok"
              /\ Len(writes) = Cardinality(Succeeded)
              /\ \A i \in Succeeded : Dispatched(i)

(* C6, as stated: the diagnostic logged for a failed write names the       *)
(* category of the record. Violated: send_to_influx is not told the        *)
(* category and prints the same text for all seven.                        *)
C6_WriteDiagnosticNamesCategory ==
    \A k \in FailedWrites :
        \E n \in 1..Len(log) :
            /\ IsWriteDiagnostic(log[n])
            /\ CategoryOfWrite(k) \in Range(log[n])

(* C6, amended: every failed write is logged as one line, the fixed text   *)
(* followed by the write error; the line names no category, and a line     *)
(* that names a category reports a failed fetch of that category.          *)
C6_WriteDiagnosticIsGeneric ==
    /\ Len(WriteDiagnostics) = Cardinality(FailedWrites)
    /\ \A n \in 1..Len(log) :
          /\ IsWriteDiagnostic(log[n]) =>
                /\ log[n] \in {WriteErrorLine(writes[k].res.val) :
                                  k \in FailedWrites}
                /\ Range(log[n]) \cap Range(Categories) = {}
          /\ Range(log[n]) \cap Range(Categories) # {} =>
                \E i \in 1..NumMappers :
                    /\ results[i].kind = "Err"
                    /\ log[n] = FetchErrorLine(Categories[i], results[i].val)

(* The write of the meter record failed; storage, ohm pilot and power flow *)
(* were written after it. *)
C6_Witness ==
    /\ pc = "returned"
    /\ Succeeded = 1..NumMappers
    /\ FailedWrites = {4}
    /\ Len(WriteDiagnostics) = 1

(* C7: when a sink configuration value is unavailable in a cycle (not set, *)
(* or set to a value that is not valid unicode),                           *)
(* fetch_data returns an Err to main, nothing is written, no per-metric    *)
(* diagnostic is logged, and main logs the error and goes on. Violated:    *)
(* with the panic of C2 nothing is returned and main does not go on.       *)
C7_MissingConfigAbortsCycle ==
    (CycleOver /\ ~ConfigAvailable) =>
        /\ res.kind = "Err"
        /\ writes = <<>>
        /\ \A n \in 1..Len(log) :
              ~IsWriteDiagnostic(log[n]) /\ ~IsFetchDiagnostic(log[n])
        /\ pc \in {"sleep", "loop"} => log[Len(log)] = CycleErrorLine(res.val)

(* What holds of C7 on the cycles fetch_data returns from. *)
C7_HoldsWhenReturned ==
    (Returned /\ ~ConfigAvailable) =>
        /\ res = sink_config(env)
        /\ res.val[1] \in {"NotPresent", "NotUnicode"}
        /\ writes = <<>>
        /\ Len(log) = IF pc = "returned" THEN 1 ELSE 2
        /\ pc \in {"sleep", "loop"} => log[2] = CycleErrorLine(res.val)

(* C8: a cycle in which all seven mappers fail, with the sink              *)
(* configuration available, writes nothing, logs one category-tagged       *)
(* diagnostic per mapper and returns Ok. Violated: with the clock past the *)
(* last timestamp and the six queries before it failing, the seventh       *)
(* mapper fails by the panic of its expect(): nothing is logged for it and *)
(* fetch_data does not return.                                             *)
C8_AllFailedCycleSucceeds ==
    (Failed = 1..NumMappers /\ ConfigAvailable) =>
        /\ pc # "panicked"
        /\ writes = <<>>
        /\ Len(WriteDiagnostics) = 0
        /\ Returned =>
              /\ res.kind = "Ok"
              /\ Len(log) = NumMappers + 1
              /\ \A i \in 1..NumMappers :
                    log[i + 1] = FetchErrorLine(Categories[i], results[i].val)

(* What holds of C8 when all seven mappers return an Err: no panic, no     *)
(* write, and once fetch_data has returned, Ok and the seven category-     *)
(* tagged lines in the order of the categories.                            *)
C8_HoldsWhenReturned ==
    ((\A i \in 1..NumMappers : results[i].kind = "Err")
        /\ ConfigAvailable) =>
        /\ pc # "panicked"
        /\ writes = <<>>
        /\ Len(WriteDiagnostics) = 0
        /\ Returned =>
              /\ res.kind = "Ok"
              /\ Len(log) = NumMappers + 1
              /\ \A i \in 1..NumMappers :
                    log[i + 1] = FetchErrorLine(Categories[i], results[i].val)

(* C9: cycles run one at a time; a new cycle starts only after the         *)
(* previous call of fetch_data has returned and exactly one sleep of at    *)
(* least 15 seconds has been taken since, whether the cycle returned Ok or *)
(* Err; a cycle that returned is always followed by the sleep and by the   *)
(* top of the loop.                                                        *)
C9_OneSleepBetweenCycles ==
    [][ /\ cycle' # cycle =>
              /\ pc = "loop"
              /\ cycle' = cycle + 1
              /\ cycle >= 1 =>
                    /\ res.kind \in {"Ok", "Err"}
                    /\ sleeps = 1
                    /\ now >= lastEnd + SleepSecs
        /\ pc = "returned" => pc' = "sleep" /\ now' = now /\ cycle' = cycle
        /\ pc = "sleep" =>
              /\ pc' = "loop"
              /\ now' >= now + SleepSecs
              /\ sleeps' = sleeps + 1
              /\ cycle' = cycle
      ]_vars

(* The second cycle has just started, 15 seconds after the first returned. *)
C9_Witness ==
    /\ cycle = 2
    /\ pc = "mappers"
    /\ idx = 1
    /\ sleeps = 1
    /\ now = lastEnd + SleepSecs

----------------------------------------------------------------------------
(* The optional source fields of each category and the record field each   *)
(* is copied to.                                                           *)
OptionalFields(i) ==
    CASE i = 1 -> {<<"pac", "ac_power">>, <<"sac", "ac_power_abs">>,
                   <<"iac", "ac_current">>, <<"uac", "ac_voltage">>,
                   <<"fac", "ac_frequency">>, <<"idc", "dc_current">>,
                   <<"udc", "dc_voltage">>,
                   <<"total_energy", "total_energy">>}
      [] i = 2 -> {<<"iac_l1", "ac_l1_current">>, <<"iac_l2", "ac_l2_current">>,
                   <<"iac_l3", "ac_l3_current">>, <<"uac_l1", "dc_l1_voltage">>,
                   <<"uac_l2", "dc_l2_voltage">>, <<"uac_l3", "dc_l3_voltage">>}
      [] i = 4 -> {<<"current_ac_phase_1", "l1_current">>,
                   <<"current_ac_phase_2", "l2_current">>,
                   <<"current_ac_phase_3", "l3_current">>,
                   <<"current_ac_sum", "current">>,
                   <<"voltage_ac_phase_1", "l1_voltage">>,
                   <<"voltage_ac_phase_2", "l2_voltage">>,
                   <<"voltage_ac_phase_3", "l3_voltage">>,
                   <<"voltage_ac_phase_to_phase_12", "l12_voltage">>,
                   <<"voltage_ac_phase_to_phase_23", "l23_voltage">>,
                   <<"voltage_ac_phase_to_phase_31", "l31_voltage">>,
                   <<"power_real_p_phase_1", "l1_power">>,
                   <<"power_real_p_phase_2", "l2_power">>,
                   <<"power_real_p_phase_3", "l3_power">>}
      [] i = 7 -> {<<"p_akku", "akku">>, <<"p_grid", "grid">>,
                   <<"p_load", "load">>,
                   <<"rel_autonomy", "relative_autonomy">>,
                   <<"rel_self_consumption", "relative_self_consumption">>}
      [] OTHER -> {}

\* The optional reading `f` of a response of category i: absent when the
\* device did not report it.
SourceReading(i, response, f) ==
    CASE i = 1 -> IF f = "fac"
                  THEN IF response.fac = None THEN None
                       ELSE response.fac[1].value
                  ELSE response[f].value
      [] i = 2 -> response[f].value
      [] i = 4 -> response[f]
      [] i = 7 -> response.site[f]

(* C10: in the record a mapper produces, a field whose optional source is  *)
(* absent is absent, and one whose source is present carries that value;   *)
(* only the ohm pilot's error_code is 0 when the source error code is      *)
(* absent.                                                                 *)
C10_OptionalFieldsPassThrough ==
    (mpc = "mapped" /\ mreply.kind = "Ok" /\ mresult.kind = "Ok") =>
        /\ \A p \in OptionalFields(mcat) :
              LET source == SourceReading(mcat, mreply.val, p[1])
                  field == mresult.val[p[2]]
              IN  /\ source = None => field = None
                  /\ source # None => field = Some(source[1])
        /\ mcat = 6 =>
              LET source == mreply.val.code_of_error IN
              /\ source = None => mresult.val.error_code = 0
              /\ source # None => mresult.val.error_code = source[1]

(* The device reported pac only: the record holds ac_power and no other    *)
(* reading.                                                                *)
C10_Witness ==
    /\ mpc = "mapped"
    /\ mcat = 1
    /\ mresult.kind = "Ok"
    /\ mreply.val.fac = None
    /\ mresult.val.device = "Inverter"
    /\ mresult.val.ac_power = Some(1)
    /\ \A p \in OptionalFields(1) :
          p[2] # "ac_power" => mresult.val[p[2]] = None

====
